---- MODULE Spec2Model ----
(***************************************************************************)
(* State-machine model of the document-analysis backend (FastAPI routes    *)
(* in app/api/routes.py, services in app/services, tables in               *)
(* app/models/database.py).                                                *)
(*                                                                         *)
(* Every handler is an `async def` running on one event loop and all of    *)
(* its database calls are synchronous, so the code between two `await`s    *)
(* is one atomic step.  Each action below is one such segment:             *)
(*   set_openai_key          validate (await) ; insert + commit            *)
(*   upload_document         no await: one step                            *)
(*   upload_file_document    extension check | await file.read() | rest    *)
(*   process_query           one step up to `return StreamingResponse`,    *)
(*                           then one step per resumption of the           *)
(*                           generate_response generator                   *)
(* datetime.utcnow() is modelled by the logical clock `now`, read and      *)
(* advanced at every insert, so two rows never share a timestamp.          *)
(***************************************************************************)
EXTENDS Integers, Sequences, FiniteSets, Bags, TLC

VARIABLES
    simulate,       \* os.getenv("SIMULATE_OPENAI_KEY") == "1"
    documents,      \* table documents, in insertion (id) order
    api_keys,       \* table api_keys, in insertion (id) order
    chat_messages,  \* table chat_messages, in insertion (id) order
    reading,        \* bag of upload_file_document calls suspended in file.read()
    streams,        \* process_query calls that returned a StreamingResponse
    now,            \* logical clock behind datetime.utcnow()
    nreq,           \* HTTP requests received so far
    last,           \* the HTTP response most recently sent (status line and body)
    sessions,       \* session_service.sessions: session id -> its record
    returned        \* the latest direct call of a service function and its result

vars == <<simulate, documents, api_keys, chat_messages, reading, streams, now,
          nreq, last, sessions, returned>>

(***************************************************************************)
(* Bounds of the model and program constants.                              *)
(***************************************************************************)
MaxRequests == 3    \* HTTP requests the model follows in one run
MaxClock == 3       \* the clock value up to which time passes by itself
MaxAge == 2         \* the largest max_age a sweep is called with
MaxRows == 21       \* rows of chat_messages a restarted service finds at most
MaxLimit == 3       \* the largest limit a history read is called with
MaxFrags == 2       \* fragments a live upstream stream produces at most

max_document_size == 1048576

Sessions == {"s1", "s2"}
Queries == {"q"}

\* Request bodies of the upload endpoints.  `text` identifies the content,
\* `chars` is len(content), `bytes` is len(content.encode('utf-8')), and
\* `utf8` tells whether the bytes decode (file endpoint) or the string
\* encodes (JSON endpoint) as UTF-8.
Payloads ==
    { [text |-> "sky",  chars |-> 16,      bytes |-> 16,      utf8 |-> TRUE],
      [text |-> "max",  chars |-> 1048576, bytes |-> 1048576, utf8 |-> TRUE],
      [text |-> "wide", chars |-> 524289,  bytes |-> 1048578, utf8 |-> TRUE],
      [text |-> "bad",  chars |-> 3,       bytes |-> 3,       utf8 |-> FALSE] }

FileNames == {"a.txt", "c.pdf"}
JsonNames == {"a.txt"}

\* API keys a client may send; the provider accepts only "sk-good".
ApiKeys == {"sk-good", "sk-bad"}

NoDoc == 0

(***************************************************************************)
(* Helpers over tables (sequences of rows).                                *)
(***************************************************************************)
Range(seq) == {seq[i] : i \in DOMAIN seq}

\* select(...).where(p): the rows satisfying p, in table order
RECURSIVE SelectSeq2(_, _)
SelectSeq2(seq, S) ==
    IF seq = <<>> THEN <<>>
    ELSE IF Head(seq) \in S THEN <<Head(seq)>> \o SelectSeq2(Tail(seq), S)
         ELSE SelectSeq2(Tail(seq), S)

\* filename.endswith('.txt')
EndsWithTxt(filename) == filename \in {"a.txt"}

(***************************************************************************)
(* DocumentProcessor.process_text_document                                 *)
(***************************************************************************)
\* hashlib.sha256(content.encode('utf-8')).hexdigest(): equal exactly for
\* equal contents
Sha256(content) == <<"sha256", content.text>>

\* the size check written with >= (rejects a document of exactly the ceiling)
TooLarge_Inclusive(content) == content.bytes >= max_document_size

\* the size check of process_text_document
TooLarge(content) == content.bytes > max_document_size

\* the result dictionary, or the ValueError it raises
process_text_document(content) ==
    IF ~content.utf8 THEN [ok |-> FALSE, error |-> "Document must be UTF-8 encoded"]
    ELSE IF TooLarge(content) THEN [ok |-> FALSE, error |-> "Document too large"]
    ELSE [ok |-> TRUE, content |-> content, content_hash |-> Sha256(content),
          char_count |-> content.chars, size |-> content.bytes]

\* a new Document row, id assigned by the table, upload_timestamp by utcnow
NewDocument(session_id, filename, processed) ==
    [id |-> Len(documents) + 1, session_id |-> session_id, filename |-> filename,
     content |-> processed.content, content_hash |-> processed.content_hash,
     upload_timestamp |-> now, size |-> processed.size]

Response(op, status, session_id, id) ==
    [op |-> op, status |-> status, session_id |-> session_id, id |-> id]

(***************************************************************************)
(* SessionService: the in-memory registry of routes.session_service        *)
(***************************************************************************)
\* self.sessions.get(session_id): the record, or None
None == [absent |-> TRUE]

get_session(session_id) ==
    IF session_id \in DOMAIN sessions THEN sessions[session_id] ELSE None

\* the registry after update_last_activity(session_id)
update_last_activity(session_id) ==
    IF session_id \in DOMAIN sessions
    THEN [sessions EXCEPT ![session_id].last_activity = now]
    ELSE sessions

\* the registry after create_session() drew session_id
NewSession(session_id) ==
    [sid \in DOMAIN sessions \cup {session_id} |->
        IF sid = session_id
        THEN [created_at |-> now, last_activity |-> now,
              documents |-> <<>>, chat_history |-> <<>>]
        ELSE sessions[sid]]

\* a sweep that also removes the sessions whose age equals max_age
expired_sessions_Inclusive(max_age) ==
    {sid \in DOMAIN sessions : now - sessions[sid].last_activity >= max_age}

\* expired_sessions of cleanup_old_sessions
expired_sessions(max_age) ==
    {sid \in DOMAIN sessions : now - sessions[sid].last_activity > max_age}

\* a handler that refreshes the session's last activity
RegistryAfterRequest_Touch(session_id) == update_last_activity(session_id)

\* the registry after an upload, set-credential, query or read handler ran:
\* none of them refers to session_service
RegistryAfterRequest(session_id) == sessions


(***************************************************************************)
(* POST /documents/upload                                                  *)
(***************************************************************************)
\* the rows the JSON endpoint's lookup selects
ExistingByHash(hash, session_id) ==
    {d \in Range(documents) : d.content_hash = hash}

upload_document(session_id, filename, content) ==
    LET processed == process_text_document(content)
        existing  == ExistingByHash(processed.content_hash, session_id)
    IN  /\ nreq < MaxRequests
        /\ nreq' = nreq + 1
        /\ IF ~processed.ok
           THEN \* except ValueError -> 400
                /\ last' = Response("upload_document", 400, session_id, NoDoc)
                /\ UNCHANGED <<documents, now>>
           ELSE IF Cardinality(existing) > 1
           THEN \* scalar_one_or_none raises MultipleResultsFound -> 500
                /\ last' = Response("upload_document", 500, session_id, NoDoc)
                /\ UNCHANGED <<documents, now>>
           ELSE IF existing # {}
           THEN /\ last' = Response("upload_document", 200, session_id,
                                    (CHOOSE d \in existing : TRUE).id)
                /\ UNCHANGED <<documents, now>>
           ELSE /\ documents' = Append(documents,
                                       NewDocument(session_id, filename, processed))
                /\ now' = now + 1
                /\ last' = Response("upload_document", 200, session_id,
                                    Len(documents) + 1)
        /\ UNCHANGED <<simulate, api_keys, chat_messages, reading, streams>>
        /\ sessions' = RegistryAfterRequest(session_id)
        /\ UNCHANGED returned

(***************************************************************************)
(* POST /sessions/{session_id}/documents/upload                            *)
(***************************************************************************)
\* a lookup that never finds the stored row
ExistingByHashAndSession_Miss(hash, session_id) == {}

\* the rows the file endpoint's lookup selects
ExistingByHashAndSession(hash, session_id) ==
    {d \in Range(documents) : d.content_hash = hash /\ d.session_id = session_id}

\* up to `await file.read()`
upload_file_begin(session_id, filename, content) ==
    /\ nreq < MaxRequests
    /\ nreq' = nreq + 1
    /\ IF ~EndsWithTxt(filename)
       THEN \* HTTPException(400) raised inside the try, caught by
            \* `except Exception` -> 500
            /\ last' = Response("upload_file_document", 500, session_id, NoDoc)
            /\ UNCHANGED reading
       ELSE /\ reading' = reading (+) SetToBag({[session_id |-> session_id,
                                                 filename |-> filename,
                                                 content |-> content]})
            /\ UNCHANGED last
    /\ UNCHANGED <<simulate, documents, api_keys, chat_messages, streams, now>>
    /\ sessions' = RegistryAfterRequest(session_id)
    /\ UNCHANGED returned

\* from content.decode('utf-8') to the return
upload_file_finish(r) ==
    LET processed == process_text_document(r.content)
        existing  == ExistingByHashAndSession(processed.content_hash, r.session_id)
    IN  /\ BagIn(r, reading)
        /\ reading' = reading (-) SetToBag({r})
        /\ IF ~processed.ok
           THEN \* except UnicodeDecodeError / except ValueError -> 400
                /\ last' = Response("upload_file_document", 400, r.session_id, NoDoc)
                /\ UNCHANGED <<documents, now>>
           ELSE IF Cardinality(existing) > 1
           THEN /\ last' = Response("upload_file_document", 500, r.session_id, NoDoc)
                /\ UNCHANGED <<documents, now>>
           ELSE IF existing # {}
           THEN /\ last' = Response("upload_file_document", 200, r.session_id,
                                    (CHOOSE d \in existing : TRUE).id)
                /\ UNCHANGED <<documents, now>>
           ELSE /\ documents' = Append(documents,
                                       NewDocument(r.session_id, r.filename, processed))
                /\ now' = now + 1
                /\ last' = Response("upload_file_document", 200, r.session_id,
                                    Len(documents) + 1)
        /\ UNCHANGED <<simulate, api_keys, chat_messages, streams, nreq>>
        /\ sessions' = RegistryAfterRequest(r.session_id)
        /\ UNCHANGED returned

(***************************************************************************)
(* utils/encryption.py                                                     *)
(***************************************************************************)
\* Fernet token of the key under the fixed derived key
encrypt_api_key(api_key) == <<"fernet", api_key>>

\* inverse of encrypt_api_key on the tokens it produced
decrypt_api_key(encrypted_key) == encrypted_key[2]

(***************************************************************************)
(* POST /config/openai-key                                                 *)
(***************************************************************************)
\* What the provider's probe call can do for a key: succeed, raise
\* openai.AuthenticationError, or raise anything else (transport).
ProbeOutcomes(api_key) ==
    IF api_key = "sk-good" THEN {"ok", "Exception"}
    ELSE {"AuthenticationError", "Exception"}

\* OpenAIService.validate_api_key, given the probe call's outcome
validate_api_key(outcome) ==
    IF simulate THEN TRUE ELSE outcome = "ok"

\* status of the response when validation reports the key invalid:
\* HTTPException(400) is raised inside the try and caught by
\* `except Exception`, which raises HTTPException(500)
InvalidKeyStatus == 500

NewApiKey(session_id, encrypted_key) ==
    [id |-> Len(api_keys) + 1, session_id |-> session_id, service |-> "openai",
     encrypted_key |-> encrypted_key, created_at |-> now, is_active |-> TRUE]

\* a store that first removes the session's earlier records
StoreApiKey_Replace(session_id, api_key) ==
    Append(SelectSeq2(api_keys, {k \in Range(api_keys) : k.session_id # session_id}),
           NewApiKey(session_id, encrypt_api_key(api_key)))

\* "Remove existing keys" only selects them; db.add(api_key_record) and
\* db.commit() append the new record
StoreApiKey(session_id, api_key) ==
    Append(api_keys, NewApiKey(session_id, encrypt_api_key(api_key)))

set_openai_key(session_id, api_key, outcome) ==
    /\ nreq < MaxRequests
    /\ nreq' = nreq + 1
    /\ outcome \in ProbeOutcomes(api_key)
    /\ IF ~validate_api_key(outcome)
       THEN /\ last' = Response("set_openai_key", InvalidKeyStatus, session_id, NoDoc)
            /\ UNCHANGED <<api_keys, now>>
       ELSE \* the select at "Remove existing keys" deletes nothing
            /\ api_keys' = StoreApiKey(session_id, api_key)
            /\ now' = now + 1
            /\ last' = Response("set_openai_key", 200, session_id, NoDoc)
    /\ UNCHANGED <<simulate, documents, chat_messages, reading, streams>>
    /\ sessions' = RegistryAfterRequest(session_id)
    /\ UNCHANGED returned

(***************************************************************************)
(* POST /chat/query: up to `return StreamingResponse(...)`                 *)
(***************************************************************************)
\* rows of the credential lookup
ActiveKeys(session_id) ==
    {k \in Range(api_keys) : /\ k.session_id = session_id
                             /\ k.service = "openai"
                             /\ k.is_active}

\* a lookup whose empty result is not checked
KeyLookup_NoCheck(session_id) ==
    IF Cardinality(ActiveKeys(session_id)) > 1 THEN "MultipleResultsFound" ELSE "one"

\* outcome of scalar_one_or_none() on the credential lookup
KeyLookup(session_id) ==
    LET rows == ActiveKeys(session_id)
    IN  IF rows = {} THEN "none"
        ELSE IF Cardinality(rows) > 1 THEN "MultipleResultsFound"
        ELSE "one"

\* document_content: the row with that id, whatever its session; "" when
\* document_id is None or names no row
NoContent == [text |-> "", chars |-> 0, bytes |-> 0, utf8 |-> TRUE]

\* a lookup that falls back to the latest document when the id names no row
DocumentContent_Fallback(document_id) ==
    IF document_id = NoDoc THEN NoContent
    ELSE IF document_id \in DOMAIN documents THEN documents[document_id].content
    ELSE IF documents # <<>> THEN documents[Len(documents)].content
    ELSE NoContent

DocumentContent(document_id) ==
    IF document_id # NoDoc /\ document_id \in DOMAIN documents
    THEN documents[document_id].content
    ELSE NoContent

\* rows of one session, in timestamp order (timestamps are distinct and
\* increase with the id)
SessionMessages(session_id) ==
    SelectSeq2(chat_messages, {m \in Range(chat_messages) : m.session_id = session_id})

\* the n oldest rows
LastN_Oldest(seq, n) ==
    IF Len(seq) <= n THEN seq ELSE SubSeq(seq, 1, n)

\* order_by(desc(timestamp)).limit(n), then reversed(): the n most recent
\* rows, oldest first
LastN(seq, n) ==
    IF Len(seq) <= n THEN seq ELSE SubSeq(seq, Len(seq) - n + 1, Len(seq))

HistoryLimit == 20

ChatHistory(session_id) ==
    LET rows == LastN(SessionMessages(session_id), HistoryLimit)
    IN  [i \in DOMAIN rows |-> [message_type |-> rows[i].message_type,
                                content |-> rows[i].content]]

\* a message row stored under one fixed session
NewMessage_Global(session_id, message_type, content, tokens_used, processing_time) ==
    [id |-> Len(chat_messages) + 1, session_id |-> "s1",
     message_type |-> message_type, content |-> content, timestamp |-> now,
     tokens_used |-> tokens_used, processing_time |-> processing_time]

\* ChatMessage(session_id=..., message_type=..., content=..., ...)
NewMessage(session_id, message_type, content, tokens_used, processing_time) ==
    [id |-> Len(chat_messages) + 1, session_id |-> session_id,
     message_type |-> message_type, content |-> content, timestamp |-> now,
     tokens_used |-> tokens_used, processing_time |-> processing_time]

\* a store that keeps only the latest user message of the session
StoreUserMessage_Latest(session_id, query) ==
    Append(SelectSeq2(chat_messages,
                      {m \in Range(chat_messages) :
                           m.session_id # session_id \/ m.message_type # "user"}),
           NewMessage(session_id, "user", query, 0, 0))

\* the user message left uncommitted when the response is returned
StoreUserMessage_Deferred(session_id, query) == chat_messages

\* "Store user message": db.add(user_message); db.commit()
StoreUserMessage(session_id, query) ==
    Append(chat_messages, NewMessage(session_id, "user", query, 0, 0))

\* the closure of generate_response when the StreamingResponse is returned
NewStream(session_id, query, document_id) ==
    [session_id |-> session_id, query |-> query,
     document_id |-> document_id,       \* request.document_id
     document_content |-> DocumentContent(document_id),
     chat_history |-> ChatHistory(session_id),
     start_time |-> now,
     user_message |-> Len(chat_messages) + 1,
     assistant_message |-> 0,
     pc |-> "started", upstream |-> <<>>,
     attempts |-> 0,        \* calls of client.chat.completions.create
     produced |-> <<>>,     \* fragments the upstream has yielded
     connected |-> TRUE,    \* the caller still holds the connection
     response_content |-> "", events |-> <<>>]

process_query(session_id, query, document_id) ==
    /\ nreq < MaxRequests
    /\ nreq' = nreq + 1
    /\ IF KeyLookup(session_id) = "none"
       THEN \* HTTPException(400), re-raised by `except HTTPException`
            /\ last' = Response("process_query", 400, session_id, NoDoc)
            /\ UNCHANGED <<chat_messages, streams, now>>
       ELSE IF KeyLookup(session_id) = "MultipleResultsFound"
       THEN \* caught by `except Exception` -> 500
            /\ last' = Response("process_query", 500, session_id, NoDoc)
            /\ UNCHANGED <<chat_messages, streams, now>>
       ELSE /\ chat_messages' = StoreUserMessage(session_id, query)
            /\ streams' = Append(streams, NewStream(session_id, query, document_id))
            /\ now' = now + 1
            /\ last' = Response("process_query", 200, session_id, NoDoc)
    /\ UNCHANGED <<simulate, documents, api_keys, reading>>
    /\ sessions' = RegistryAfterRequest(session_id)
    /\ UNCHANGED returned

(***************************************************************************)
(* OpenAIService.analyze_document and generate_response                    *)
(***************************************************************************)
\* content[:n] of a document content; a content of more than n characters
\* is cut, and the cut text is another text than the whole
Take(content, n) ==
    IF content.chars <= n THEN content.text
    ELSE content.text \o "[:" \o ToString(n) \o "]"

\* _create_analysis_prompt(): one fixed text
system_prompt == "You are an AI assistant specialized in document analysis"

\* chat_history[-10:]
PromptWindow == 10

\* document_content[:8000]
DocumentWindow == 8000

\* a prompt that carries all of the fetched history
messages_AllHistory(document_content, query, chat_history) ==
    <<[role |-> "system", content |-> system_prompt]>>
    \o (IF document_content.chars > 0
        THEN <<[role |-> "system",
                content |-> "Document content: "
                                \o Take(document_content, DocumentWindow)]>>
        ELSE <<>>)
    \o [k \in DOMAIN chat_history |->
            [role |-> IF chat_history[k].message_type = "user"
                      THEN "user" ELSE "assistant",
             content |-> chat_history[k].content]]
    \o <<[role |-> "user", content |-> query]>>

\* the messages array analyze_document sends to chat.completions.create
messages(document_content, query, chat_history) ==
    LET recent == LastN(chat_history, PromptWindow)
    IN  <<[role |-> "system", content |-> system_prompt]>>
        \o (IF document_content.chars > 0
            THEN <<[role |-> "system",
                    content |-> "Document content: "
                                    \o Take(document_content, DocumentWindow)]>>
            ELSE <<>>)
        \o [k \in DOMAIN recent |->
                [role |-> IF recent[k].message_type = "user"
                          THEN "user" ELSE "assistant",
                 content |-> recent[k].content]]
        \o <<[role |-> "user", content |-> query]>>

\* delta.content of the k-th chunk of a live completion stream.  The relay
\* never branches on a fragment's text, so one text per position is
\* followed, neighbours differing in text and in length.
LiveFragment(k) == IF k % 2 = 1 THEN "ab" ELSE "cde"

\* text.split() for the texts the model sends: the words between whitespace
Words(text) ==
    CASE text = "" -> <<>>
      [] text = "q r" -> <<"q", "r">>
      [] text = "q r t" -> <<"q", "r", "t">>
      [] text = "x  y..." -> <<"x", "y...">>
      [] OTHER -> <<text>>

\* the words of f"'{query}',"
QuotedWords(query) ==
    LET w == Words(query)
    IN  IF w = <<>> THEN <<"'',">>
        ELSE IF Len(w) = 1 THEN <<"'" \o w[1] \o "',">>
        ELSE <<"'" \o w[1]>> \o SubSeq(w, 2, Len(w) - 1) \o <<w[Len(w)] \o "',">>

\* a canned response that quotes the whole document
SimulatedWords_WholeDocument(document_content, query) ==
    (IF document_content.chars > 0
     THEN <<"Based", "on:">> \o Words(document_content.text \o "...")
     ELSE <<"Happy", "to", "help.">>)
    \o <<"Regarding">> \o QuotedWords(query) \o <<"simulated.">>
    \o <<"In", "production.">>

\* _simulate_response: response.split(), the words of the canned response
\* (the literals are shortened; the document part is the words of
\* document_content[:100] plus "...")
SimulatedWords(document_content, query) ==
    (IF document_content.chars > 0
     THEN <<"Based", "on:">> \o Words(Take(document_content, 100) \o "...")
     ELSE <<"Happy", "to", "help.">>)
    \o <<"Regarding">> \o QuotedWords(query) \o <<"simulated.">>
    \o <<"In", "production.">>

\* " ".join(words) + " "
RECURSIVE JoinWords(_)
JoinWords(words) ==
    IF words = <<>> THEN "" ELSE Head(words) \o " " \o JoinWords(Tail(words))

\* the chunks _simulate_response yields: 3 words at a time
RECURSIVE Chunks3(_)
Chunks3(words) ==
    IF words = <<>> THEN <<>>
    ELSE IF Len(words) <= 3 THEN <<JoinWords(words)>>
    ELSE <<JoinWords(SubSeq(words, 1, 3))>> \o Chunks3(SubSeq(words, 4, Len(words)))

_simulate_response(document_content, query) ==
    Chunks3(SimulatedWords(document_content, query))

\* a token estimate that rounds up
get_response_tokens_Ceil(content) == (Len(content) + 3) \div 4

\* OpenAIService.get_response_tokens
get_response_tokens(content) == Len(content) \div 4

SetStream(i, s) == streams' = [streams EXCEPT ![i] = s]

\* a relay that buffers the fragment instead of sending it on
Forward_Buffered(s, chunk) ==
    [s EXCEPT !.response_content = @ \o chunk]

\* `yield f"data: {chunk}\n\n"` after `response_content += chunk`
Forward(s, chunk) ==
    [s EXCEPT !.response_content = @ \o chunk,
              !.events = Append(@, "data: " \o chunk)]

\* an error handler that reports the error and lets the generator go on
OnException_Resume(s, outcome) ==
    [s EXCEPT !.events = Append(@, "data: ERROR: " \o outcome)]

\* `except Exception as e` of generate_response: one ERROR event, then the
\* generator returns
OnException(s, outcome) ==
    [s EXCEPT !.pc = "failed",
              !.events = Append(@, "data: ERROR: " \o outcome)]

\* stop_after_attempt(3) of the @retry decorator on analyze_document
RetryAttempts == 3

\* first resumption of the generator: analyze_document starts.  In
\* simulation mode it runs to the first yield; otherwise it awaits
\* client.chat.completions.create, which returns the stream or raises.
\* analyze_document is an async generator function: the call that @retry
\* wraps only builds the generator object and never raises, so the
\* decorator sees one successful call; what create() raises is raised
\* while generate_response iterates, outside the decorator, and reaches
\* its `except Exception` after this single attempt.
stream_invoke(i, outcome) ==
    LET s == streams[i]
    IN  /\ s.pc = "started"
        /\ IF simulate
           THEN LET chunks == _simulate_response(s.document_content, s.query)
                IN  /\ outcome = "ok"
                    /\ SetStream(i, [Forward(s, Head(chunks)) EXCEPT
                                        !.pc = "streaming", !.upstream = Tail(chunks),
                                        !.produced = <<Head(chunks)>>])
           ELSE IF outcome = "ok"
           THEN SetStream(i, [s EXCEPT !.pc = "streaming", !.attempts = @ + 1])
           ELSE SetStream(i, [OnException(s, outcome) EXCEPT !.attempts = @ + 1])
        /\ UNCHANGED <<simulate, documents, api_keys, chat_messages, reading, now,
                       nreq, last>>
        /\ UNCHANGED <<sessions, returned>>

\* what the upstream of a stream can yield next: the next simulated chunk,
\* or the next fragment of a live stream
UpstreamNext(s) ==
    IF simulate
    THEN IF s.upstream # <<>> THEN {Head(s.upstream)} ELSE {}
    ELSE IF Len(s.events) < MaxFrags THEN {LiveFragment(Len(s.events) + 1)} ELSE {}

\* the upstream produces one more fragment and it is forwarded
stream_chunk(i, chunk) ==
    LET s == streams[i]
    IN  /\ s.pc = "streaming"
        /\ chunk \in UpstreamNext(s)
        /\ SetStream(i, [Forward(s, chunk) EXCEPT
                            !.upstream = IF simulate THEN Tail(@) ELSE @,
                            !.produced = Append(@, chunk)])
        /\ UNCHANGED <<simulate, documents, api_keys, chat_messages, reading, now,
                       nreq, last>>
        /\ UNCHANGED <<sessions, returned>>

\* the live stream raises while it is iterated
stream_fail(i, outcome) ==
    LET s == streams[i]
    IN  /\ s.pc = "streaming"
        /\ ~simulate
        /\ SetStream(i, OnException(s, outcome))
        /\ UNCHANGED <<simulate, documents, api_keys, chat_messages, reading, now,
                       nreq, last>>
        /\ UNCHANGED <<sessions, returned>>

\* what db.commit() of the assistant message can raise
CommitErrors == {"OperationalError"}

\* a generator that announces the end before it stores the assistant message
AfterCommit_DoneFirst(s, outcome) ==
    IF outcome = "ok"
    THEN [s EXCEPT !.pc = "done",
                   !.assistant_message = Len(chat_messages) + 1,
                   !.events = Append(@, "data: [DONE]")]
    ELSE [s EXCEPT !.pc = "failed",
                   !.events = @ \o <<"data: [DONE]", "data: ERROR: " \o outcome>>]

\* the generator after db.commit() of the assistant message returned or
\* raised: `yield "data: [DONE]"` follows the commit inside the try, so a
\* commit that raises goes to `except Exception` instead
AfterCommit(s, outcome) ==
    IF outcome = "ok"
    THEN [s EXCEPT !.pc = "done",
                   !.assistant_message = Len(chat_messages) + 1,
                   !.events = Append(@, "data: [DONE]")]
    ELSE OnException(s, outcome)

\* the upstream is exhausted: store the assistant message, send [DONE]
stream_finish(i, outcome) ==
    LET s == streams[i]
    IN  /\ s.pc = "streaming"
        /\ simulate => s.upstream = <<>>
        /\ IF outcome = "ok"
           THEN /\ chat_messages' =
                       Append(chat_messages,
                              NewMessage(s.session_id, "assistant", s.response_content,
                                         get_response_tokens(s.response_content),
                                         now - s.start_time))
                /\ now' = now + 1
           ELSE UNCHANGED <<chat_messages, now>>
        /\ SetStream(i, AfterCommit(s, outcome))
        /\ UNCHANGED <<simulate, documents, api_keys, reading, nreq, last>>
        /\ UNCHANGED <<sessions, returned>>

\* a disconnect the generator does not notice
OnDisconnect_Ignored(s) == s

\* the response task is cancelled: CancelledError / GeneratorExit is raised
\* at the generator's suspension point and is no Exception, so neither
\* `except Exception` handles it and the generator unwinds
OnDisconnect(s) == [s EXCEPT !.pc = "closed"]

\* the caller disconnects while the stream is in progress
stream_disconnect(i) ==
    LET s == streams[i]
    IN  /\ s.pc \in {"started", "streaming"}
        /\ s.connected
        /\ SetStream(i, [OnDisconnect(s) EXCEPT !.connected = FALSE])
        /\ UNCHANGED <<simulate, documents, api_keys, chat_messages, reading, now,
                       nreq, last>>
        /\ UNCHANGED <<sessions, returned>>

\* exceptions the completion call or its stream may raise
UpstreamErrors == {"RateLimitError", "Exception"}

\* `limit: int = 50`
DefaultLimit == 50

\* GET /chat/history/{session_id}?limit=
get_chat_history(session_id, limit) == LastN(SessionMessages(session_id), limit)

\* reversed(seq)
RECURSIVE Reverse(_)
Reverse(seq) ==
    IF seq = <<>> THEN <<>> ELSE Append(Reverse(Tail(seq)), Head(seq))

\* GET /documents/{session_id}: the rows of the session,
\* order_by(desc(upload_timestamp))
get_documents(session_id) ==
    Reverse(SelectSeq2(documents,
                       {d \in Range(documents) : d.session_id = session_id}))

(***************************************************************************)
(* Specification                                                           *)
(***************************************************************************)
Init ==
    /\ simulate \in BOOLEAN
    /\ documents = <<>>
    /\ api_keys = <<>>
    /\ chat_messages = <<>>
    /\ reading = EmptyBag
    /\ streams = <<>>
    /\ now = 1
    /\ nreq = 0
    /\ last = Response("none", 0, "s1", NoDoc)
    /\ sessions = << >>
    /\ returned = [op |-> "none", arg |-> 0, result |-> 0]

Next ==
    \/ \E s \in Sessions, f \in JsonNames, c \in Payloads : upload_document(s, f, c)
    \/ \E s \in Sessions, f \in FileNames, c \in Payloads : upload_file_begin(s, f, c)
    \/ \E r \in BagToSet(reading) : upload_file_finish(r)
    \/ \E s \in Sessions, k \in ApiKeys, o \in {"ok", "AuthenticationError", "Exception"} :
           set_openai_key(s, k, o)
    \/ \E s \in Sessions, q \in Queries, d \in 0..(Len(documents) + 1) :
           process_query(s, q, d)
    \/ \E i \in DOMAIN streams, o \in {"ok"} \cup UpstreamErrors : stream_invoke(i, o)
    \/ \E i \in DOMAIN streams : \E c \in UpstreamNext(streams[i]) : stream_chunk(i, c)
    \/ \E i \in DOMAIN streams, o \in UpstreamErrors : stream_fail(i, o)
    \/ \E i \in DOMAIN streams, o \in {"ok"} \cup CommitErrors : stream_finish(i, o)
    \/ \E i \in DOMAIN streams : stream_disconnect(i)

Spec == Init /\ [][Next]_vars

(***************************************************************************)
(* The session registry next to the handlers                               *)
(***************************************************************************)
\* POST /sessions/ and GET /session/new: SessionService.create_session with
\* a fresh uuid4
create_session(session_id) ==
    /\ nreq < MaxRequests
    /\ nreq' = nreq + 1
    /\ session_id \notin DOMAIN sessions
    /\ sessions' = NewSession(session_id)
    /\ last' = Response("create_session", 200, session_id, NoDoc)
    /\ UNCHANGED <<simulate, documents, api_keys, chat_messages, reading, streams,
                   now, returned>>

\* GET /chat/history/{session_id}?limit=
read_chat_history(session_id, limit) ==
    /\ nreq < MaxRequests
    /\ nreq' = nreq + 1
    /\ last' = Response("get_chat_history", 200, session_id,
                        Len(get_chat_history(session_id, limit)))
    /\ sessions' = RegistryAfterRequest(session_id)
    /\ UNCHANGED <<simulate, documents, api_keys, chat_messages, reading, streams,
                   now, returned>>

\* GET /documents/{session_id}
read_documents(session_id) ==
    /\ nreq < MaxRequests
    /\ nreq' = nreq + 1
    /\ last' = Response("get_documents", 200, session_id,
                        Len(get_documents(session_id)))
    /\ sessions' = RegistryAfterRequest(session_id)
    /\ UNCHANGED <<simulate, documents, api_keys, chat_messages, reading, streams,
                   now, returned>>

\* a direct call of SessionService.update_last_activity
touch_session(session_id) ==
    /\ sessions' = update_last_activity(session_id)
    /\ returned' = [op |-> "update_last_activity", arg |-> session_id, result |-> 0]
    /\ UNCHANGED <<simulate, documents, api_keys, chat_messages, reading, streams,
                   now, nreq, last>>

\* a direct call of SessionService.cleanup_old_sessions(max_age)
cleanup_old_sessions(max_age) ==
    /\ sessions' = [sid \in DOMAIN sessions \ expired_sessions(max_age)
                        |-> sessions[sid]]
    /\ returned' = [op |-> "cleanup_old_sessions", arg |-> max_age,
                    result |-> Cardinality(expired_sessions(max_age))]
    /\ UNCHANGED <<simulate, documents, api_keys, chat_messages, reading, streams,
                   now, nreq, last>>

\* time.time() advances between two calls
tick ==
    /\ now < MaxClock
    /\ now' = now + 1
    /\ UNCHANGED <<simulate, documents, api_keys, chat_messages, reading, streams,
                   nreq, last, sessions, returned>>

\* one valid payload, one key and a successful probe are enough here: the
\* registry is not read by any handler
NextRegistry ==
    \/ \E s \in Sessions : create_session(s)
    \/ \E s \in Sessions : touch_session(s)
    \/ \E a \in 0..MaxAge : cleanup_old_sessions(a)
    \/ tick
    \/ \E s \in Sessions, c \in {x \in Payloads : x.text = "sky"} :
           upload_document(s, "a.txt", c)
    \/ \E s \in Sessions : set_openai_key(s, "sk-good", "ok")
    \/ \E s \in Sessions, d \in 0..Len(documents) : process_query(s, "q", d)
    \/ \E s \in Sessions, l \in {HistoryLimit} : read_chat_history(s, l)
    \/ \E s \in Sessions : read_documents(s)

\* the generators do not run here, so one setting of the mode is followed
InitRegistry == Init /\ simulate

SpecRegistry == InitRegistry /\ [][NextRegistry]_vars

(***************************************************************************)
(* One request to a service restarted over a filled database               *)
(***************************************************************************)
\* queries of zero to three words
PureQueries == {"", "q", "q r", "q r t"}

\* the session of the i-th of n stored messages: s1, with up to two
\* messages of s2 in between
StoredSession(i, n, pattern) ==
    IF (pattern # "none" /\ i = 2) \/ (pattern = "second_last" /\ i = n)
    THEN "s2" ELSE "s1"

\* chat_messages as n earlier requests left it: per session a user message
\* followed by its assistant message, and so on; ids and timestamps in
\* insertion order, every content different
StoredMessages(n, pattern) ==
    [i \in 1..n |->
        LET sid == StoredSession(i, n, pattern)
            k == Cardinality({j \in 1..i : StoredSession(j, n, pattern) = sid})
            content == (IF k % 2 = 1 THEN "q" ELSE "a") \o ToString(i)
        IN  [id |-> i, session_id |-> sid,
             message_type |-> IF k % 2 = 1 THEN "user" ELSE "assistant",
             content |-> content, timestamp |-> i,
             tokens_used |-> IF k % 2 = 1 THEN 0 ELSE Len(content) \div 4,
             processing_time |-> IF k % 2 = 1 THEN 0 ELSE 1]]

\* documents as three earlier uploads of s1 left it: a short document, one
\* of max_document_size characters, and one of two words with two spaces
\* between them
StoredDocuments ==
    LET sky == CHOOSE c \in Payloads : c.text = "sky"
        max == CHOOSE c \in Payloads : c.text = "max"
        gap == [text |-> "x  y", chars |-> 4, bytes |-> 4, utf8 |-> TRUE]
    IN  <<[id |-> 1, session_id |-> "s1", filename |-> "a.txt", content |-> sky,
           content_hash |-> Sha256(sky), upload_timestamp |-> 0, size |-> sky.bytes],
          [id |-> 2, session_id |-> "s1", filename |-> "a.txt", content |-> max,
           content_hash |-> Sha256(max), upload_timestamp |-> 0, size |-> max.bytes],
          [id |-> 3, session_id |-> "s1", filename |-> "a.txt", content |-> gap,
           content_hash |-> Sha256(gap), upload_timestamp |-> 0, size |-> gap.bytes]>>

\* the process starts over the durable tables: no stream, no upload in
\* flight, an empty registry, and one request ahead
InitPure ==
    /\ simulate \in BOOLEAN
    /\ documents = StoredDocuments
    /\ api_keys = <<[id |-> 1, session_id |-> "s1", service |-> "openai",
                     encrypted_key |-> encrypt_api_key("sk-good"),
                     created_at |-> 0, is_active |-> TRUE]>>
    /\ \E n \in 0..MaxRows, pattern \in {"none", "second", "second_last"} :
           /\ chat_messages = StoredMessages(n, pattern)
           /\ now = n + 1
    /\ reading = EmptyBag
    /\ streams = <<>>
    /\ nreq = MaxRequests - 1
    /\ last = Response("none", 0, "s1", NoDoc)
    /\ sessions = << >>
    /\ returned = [op |-> "none", arg |-> 0, result |-> 0]

NextPure ==
    \/ \E s \in Sessions, q \in PureQueries, d \in 0..Len(documents) :
           process_query(s, q, d)
    \/ \E s \in Sessions, l \in (0..MaxLimit) \cup {DefaultLimit} :
           read_chat_history(s, l)
    \/ \E i \in DOMAIN streams, o \in {"ok"} \cup UpstreamErrors : stream_invoke(i, o)
    \/ \E i \in DOMAIN streams : \E c \in UpstreamNext(streams[i]) : stream_chunk(i, c)
    \/ \E i \in DOMAIN streams, o \in UpstreamErrors : stream_fail(i, o)
    \/ \E i \in DOMAIN streams, o \in {"ok"} \cup CommitErrors : stream_finish(i, o)
    \/ \E i \in DOMAIN streams : stream_disconnect(i)

SpecPure == InitPure /\ [][NextPure]_vars

(***************************************************************************)
(* Properties                                                              *)
(***************************************************************************)
UploadOps == {"upload_document", "upload_file_document"}

\* session_id has a credential record in api_keys
HasCredential(session_id) == \E k \in Range(api_keys) : k.session_id = session_id

\* the response before this step answered a successful upload of `content`
\* for `session_id`
LastUploaded(session_id, content) ==
    /\ last.op \in UploadOps
    /\ last.status = 200
    /\ last.session_id = session_id
    /\ last.id \in DOMAIN documents
    /\ documents[last.id].content = content

\* the response before this step answered a successful upload of `content`
\* for a session other than `session_id`
LastUploadedElsewhere(session_id, content) ==
    /\ last.op \in UploadOps
    /\ last.status = 200
    /\ last.session_id # session_id
    /\ last.id \in DOMAIN documents
    /\ documents[last.id].content = content

\* C1: in every reachable state no two rows of documents have the same
\* (content_hash, session_id), whatever uploads ran and however the two
\* endpoints interleaved.
C1_DedupUnique ==
    \A i, j \in DOMAIN documents :
        (/\ documents[i].content_hash = documents[j].content_hash
         /\ documents[i].session_id = documents[j].session_id) => i = j

\* C1 witness: an upload for a session was answered with a row of that
\* session that an earlier upload had created (it is not the newest row).
C1_Witness ==
    /\ last.op \in UploadOps
    /\ last.status = 200
    /\ last.id \in DOMAIN documents
    /\ last.id < Len(documents)
    /\ documents[last.id].session_id = last.session_id

\* C2 (as claimed): an upload that repeats, for the same session, the
\* content of the upload answered just before it returns the same document
\* id, with status 200, and leaves the documents table unchanged, whichever
\* endpoint either upload used.
C2_RepeatSameId ==
    [][ /\ \A s \in Sessions, f \in JsonNames, c \in Payloads :
              (upload_document(s, f, c) /\ LastUploaded(s, c))
                  => (last'.status = 200 /\ last'.id = last.id
                      /\ documents' = documents)
        /\ \A r \in BagToSet(reading) :
              (upload_file_finish(r) /\ LastUploaded(r.session_id, r.content))
                  => (last'.status = 200 /\ last'.id = last.id
                      /\ documents' = documents) ]_vars

\* C3 (as claimed): an upload that repeats, for a different session, the
\* content of the upload answered just before it is answered with status
\* 200 and a different document id, that of a row owned by its own session,
\* on the JSON endpoint as on the file endpoint.
C3_OtherSessionDistinctId ==
    [][ /\ \A s \in Sessions, f \in JsonNames, c \in Payloads :
              (upload_document(s, f, c) /\ LastUploadedElsewhere(s, c))
                  => (/\ last'.status = 200
                      /\ last'.id # last.id
                      /\ last'.id \in DOMAIN documents'
                      /\ documents'[last'.id].session_id = s)
        /\ \A r \in BagToSet(reading) :
              (upload_file_finish(r) /\ LastUploadedElsewhere(r.session_id, r.content))
                  => (/\ last'.status = 200
                      /\ last'.id # last.id
                      /\ last'.id \in DOMAIN documents'
                      /\ documents'[last'.id].session_id = r.session_id) ]_vars

\* C4 (as claimed): a query on a session that has one or more stored active
\* credential records resolves the most recent one and proceeds to
\* generation: it is answered 200 with a stream and its user message is
\* stored, however many older records the session has.
C4_QueryResolvesLatestKey ==
    [][ \A s \in Sessions, q \in Queries, d \in 0..(Len(documents) + 1) :
            (process_query(s, q, d) /\ HasCredential(s))
                => (/\ last'.status = 200
                    /\ Len(streams') = Len(streams) + 1
                    /\ Len(chat_messages') = Len(chat_messages) + 1) ]_vars

\* C5: a query on a session with no stored credential is answered 400 (not
\* 5xx), starts no stream and changes no table: no user message is stored.
C5_NoCredentialRejected ==
    [][ \A s \in Sessions, q \in Queries, d \in 0..(Len(documents) + 1) :
            (process_query(s, q, d) /\ ~HasCredential(s))
                => (/\ last'.op = "process_query"
                    /\ last'.status = 400
                    /\ UNCHANGED <<documents, api_keys, chat_messages, streams,
                                   reading>>) ]_vars

\* C5 witness: a query was answered 400 for a session without credential.
C5_Witness ==
    /\ last.op = "process_query"
    /\ last.status = 400
    /\ ~HasCredential(last.session_id)
    /\ documents # <<>>

\* C6 (as claimed): set-credential with a secret the provider validation
\* reports invalid is answered 400 and stores no credential record.
C6_InvalidKey400 ==
    [][ \A s \in Sessions, k \in ApiKeys, o \in {"AuthenticationError", "Exception"} :
            (set_openai_key(s, k, o) /\ ~simulate)
                => (last'.status = 400 /\ api_keys' = api_keys) ]_vars

\* C7 (as claimed): a file upload whose filename does not end in .txt is
\* answered 400 (not 5xx) and creates no document record.
C7_WrongExtension400 ==
    [][ \A s \in Sessions, c \in Payloads :
            upload_file_begin(s, "c.pdf", c)
                => (last'.status = 400 /\ documents' = documents
                    /\ reading' = reading) ]_vars

\* the content is not valid UTF-8 or its UTF-8 byte length exceeds the ceiling
Invalid(content) == ~content.utf8 \/ content.bytes > max_document_size

OwnEntries(i) ==
    SelectSeq2(get_chat_history(streams[i].session_id, HistoryLimit),
               {m \in Range(chat_messages) :
                    m.id \in {streams[i].user_message, streams[i].assistant_message}})

\* C9 (as claimed): a query with a document id on a session with a stored
\* credential is answered with a stream; when the upstream does not fail and
\* the caller stays connected the stream's last event is [DONE], and the
\* session history then holds exactly one user entry and one assistant entry
\* of that query, the user entry first.
C9_QueryStreamsToDone ==
    /\ [][ \A s \in Sessions, q \in Queries, d \in 1..(Len(documents) + 1) :
              (process_query(s, q, d) /\ HasCredential(s))
                  => (last'.status = 200 /\ Len(streams') = Len(streams) + 1) ]_vars
    /\ [](\A i \in DOMAIN streams :
              streams[i].pc = "done"
                  => /\ streams[i].events[Len(streams[i].events)] = "data: [DONE]"
                     /\ Len(OwnEntries(i)) = 2
                     /\ OwnEntries(i)[1].message_type = "user"
                     /\ OwnEntries(i)[2].message_type = "assistant")

\* the user message of stream i is a row of chat_messages
UserMessageCommitted(i) ==
    \E m \in Range(chat_messages) :
        /\ m.id = streams[i].user_message
        /\ m.session_id = streams[i].session_id
        /\ m.message_type = "user"
        /\ m.content = streams[i].query

\* C10: whenever a step invokes the model for a query (its generator leaves
\* "started") or sends one of its events to the caller, the query's user
\* message was already committed before that step; and every query that
\* passed credential resolution has its user message committed.
C10_UserMessageFirst ==
    /\ [][ \A i \in DOMAIN streams :
              (\/ streams[i].pc = "started" /\ streams'[i].pc # "started"
               \/ Len(streams'[i].events) > Len(streams[i].events))
                  => UserMessageCommitted(i) ]_vars
    /\ [](\A i \in DOMAIN streams : UserMessageCommitted(i))

\* C10 witness: a fragment of a query has been sent and the query's user
\* message is in the log.
C10_Witness ==
    \E i \in DOMAIN streams :
        /\ streams[i].events # <<>>
        /\ streams[i].pc = "streaming"
        /\ UserMessageCommitted(i)

\* the events that end a stream
ErrorEvents == {"data: ERROR: " \o o : o \in UpstreamErrors}

Terminators ==
    ErrorEvents \cup {"data: ERROR: " \o o : o \in CommitErrors} \cup {"data: [DONE]"}

\* the number of assistant rows equals the number of streams that finished
AssistantRowsAreOfDoneStreams ==
    Cardinality({m \in Range(chat_messages) : m.message_type = "assistant"})
        = Cardinality({j \in DOMAIN streams : streams[j].pc = "done"})

\* C11: at every moment of every stream the data events sent to the caller
\* are the fragments the upstream has produced so far, one event per
\* fragment, in the same order and with the same boundaries; no produced
\* fragment is held back while the next one is requested, and the only event
\* after them is a terminator.
C11_TransparentRelay ==
    \A i \in DOMAIN streams :
        LET s == streams[i]
            n == Len(s.produced)
        IN  /\ Len(s.events) \in {n, n + 1}
            /\ \A k \in 1..n : s.events[k] = "data: " \o s.produced[k]
            /\ Len(s.events) = n + 1 => s.events[n + 1] \in Terminators

C11_Witness ==
    \E i \in DOMAIN streams :
        /\ Len(streams[i].produced) >= 2
        /\ streams[i].produced[1] # streams[i].produced[2]
        /\ Len(streams[i].events) = Len(streams[i].produced) + 1
        /\ streams[i].pc = "done"

\* the stream has sent an ERROR event
HasError(s) == \E k \in DOMAIN s.events : s.events[k] \in ErrorEvents

\* C12: a stream whose generation failed has exactly one ERROR event, which
\* is its last event, and no [DONE]; the completion call was made once (no
\* retry), the query has no assistant message, its user message is still
\* stored, and nothing is sent or stored for it afterwards.
C12_FailureEndsStream ==
    /\ [](\A i \in DOMAIN streams :
            LET s == streams[i]
            IN  HasError(s) =>
                    /\ s.events[Len(s.events)] \in ErrorEvents
                    /\ Cardinality({k \in DOMAIN s.events :
                                        s.events[k] \in ErrorEvents}) = 1
                    /\ \A k \in DOMAIN s.events : s.events[k] # "data: [DONE]"
                    /\ s.attempts = 1
                    /\ s.assistant_message = 0
                    /\ AssistantRowsAreOfDoneStreams
                    /\ UserMessageCommitted(i))
    /\ [][\A i \in DOMAIN streams :
            HasError(streams[i]) => streams'[i] = streams[i]]_vars

C12_Witness ==
    \E i \in DOMAIN streams :
        /\ HasError(streams[i])
        /\ Len(streams[i].produced) >= 1
        /\ Len(streams[i].events) = Len(streams[i].produced) + 1

\* "".join(fragments)
RECURSIVE Concat(_)
Concat(fragments) ==
    IF fragments = <<>> THEN "" ELSE Head(fragments) \o Concat(Tail(fragments))

\* C13: the assistant message stored for a query has as content the
\* concatenation, in order, of the fragments forwarded to the caller, and
\* its tokens_used is the length of that content integer-divided by 4.
C13_AssistantMessageContent ==
    \A i \in DOMAIN streams :
        LET s == streams[i]
        IN  (s.pc = "done" \/ s.assistant_message # 0) =>
                /\ \A k \in DOMAIN s.produced :
                       s.events[k] = "data: " \o s.produced[k]
                /\ \E m \in Range(chat_messages) :
                       /\ m.id = s.assistant_message
                       /\ m.session_id = s.session_id
                       /\ m.message_type = "assistant"
                       /\ m.content = Concat(s.produced)
                       /\ m.tokens_used = Len(m.content) \div 4

C13_Witness ==
    \E i \in DOMAIN streams :
        /\ streams[i].pc = "done"
        /\ Len(streams[i].produced) >= 2
        /\ \E m \in Range(chat_messages) :
               /\ m.id = streams[i].assistant_message
               /\ m.tokens_used >= 1
               /\ Len(m.content) % 4 # 0

\* C14 (as claimed): a rate-limit failure of the completion call before any
\* fragment was forwarded reaches the caller as an ERROR event only after
\* the call was attempted RetryAttempts times.
C14_RetriedBeforeSurfaced ==
    \A i \in DOMAIN streams :
        LET s == streams[i]
        IN  (s.events = <<"data: ERROR: RateLimitError">>)
                => s.attempts = RetryAttempts

\* C15: once the caller of a stream in progress has disconnected, no further
\* event is sent on the stream, [DONE] is never among its events, no
\* assistant message is stored for the query, and its user message remains.
C15_DisconnectStopsRelay ==
    /\ [](\A i \in DOMAIN streams :
            ~streams[i].connected =>
                /\ \A k \in DOMAIN streams[i].events :
                       streams[i].events[k] # "data: [DONE]"
                /\ streams[i].assistant_message = 0
                /\ AssistantRowsAreOfDoneStreams
                /\ UserMessageCommitted(i))
    /\ [][\A i \in DOMAIN streams :
            (~streams[i].connected \/ ~streams'[i].connected) =>
                /\ streams'[i].events = streams[i].events
                /\ streams'[i].assistant_message = streams[i].assistant_message
                /\ \A m \in Range(chat_messages') :
                       m.id = streams[i].user_message => m \in Range(chat_messages)
                /\ \A m \in Range(chat_messages) : m \in Range(chat_messages')]_vars

C15_Witness ==
    \E i \in DOMAIN streams :
        /\ ~streams[i].connected
        /\ streams[i].events # <<>>
        /\ \E j \in DOMAIN streams : j # i /\ streams[j].pc = "done"

\* C16: a query whose document_id resolves to no stored document is handled
\* like the same query without a document: it is refused only when the
\* session's credential lookup refuses it, and otherwise it is answered with
\* a stream that differs from the stream of the query without a document
\* only in the request's document_id, so its generation gets empty document
\* context; the user message is stored before the response.
C16_UnknownDocumentAsNone ==
    [][ \A s \in Sessions, q \in Queries, d \in 1..(Len(documents) + 1) :
            (process_query(s, q, d) /\ d \notin DOMAIN documents)
                => /\ last'.status # 200 => KeyLookup(s) # "one"
                   /\ last'.status = 200 =>
                          /\ streams' =
                                 Append(streams,
                                        [NewStream(s, q, NoDoc)
                                             EXCEPT !.document_id = d])
                          /\ streams'[Len(streams')].document_content = NoContent
                          /\ \E m \in Range(chat_messages') :
                                 /\ m \notin Range(chat_messages)
                                 /\ m.id = streams'[Len(streams')].user_message
                                 /\ m.session_id = s
                                 /\ m.message_type = "user"
                                 /\ m.content = q ]_vars

C16_Witness ==
    \E i \in DOMAIN streams :
        /\ streams[i].document_id # NoDoc
        /\ streams[i].document_id \notin DOMAIN documents
        /\ streams[i].document_content = NoContent
        /\ UserMessageCommitted(i)
        /\ streams[i].pc = "done"
        /\ streams[i].events[Len(streams[i].events)] = "data: [DONE]"

\* C17 (as claimed): the document content a query of session A hands to the
\* generation is empty or the content of a document owned by A.
C17_OwnDocumentsOnly ==
    \A i \in DOMAIN streams :
        streams[i].document_content # NoContent =>
            \E d \in Range(documents) :
                /\ d.session_id = streams[i].session_id
                /\ d.content = streams[i].document_content

\* the rows of a table owned by a session
Owned(table, session_id) ==
    SelectSeq2(table, {r \in Range(table) : r.session_id = session_id})

\* the step comes from a request or a stream of session_id
StepOf(session_id) ==
    \/ \E f \in JsonNames, c \in Payloads : upload_document(session_id, f, c)
    \/ \E f \in FileNames, c \in Payloads : upload_file_begin(session_id, f, c)
    \/ \E r \in BagToSet(reading) :
           r.session_id = session_id /\ upload_file_finish(r)
    \/ \E k \in ApiKeys, o \in {"ok", "AuthenticationError", "Exception"} :
           set_openai_key(session_id, k, o)
    \/ \E q \in Queries, d \in 0..(Len(documents) + 1) :
           process_query(session_id, q, d)
    \/ \E i \in DOMAIN streams :
           /\ streams[i].session_id = session_id
           /\ \/ \E o \in {"ok"} \cup UpstreamErrors : stream_invoke(i, o)
              \/ \E c \in UpstreamNext(streams[i]) : stream_chunk(i, c)
              \/ \E o \in UpstreamErrors : stream_fail(i, o)
              \/ \E o \in {"ok"} \cup CommitErrors : stream_finish(i, o)
              \/ stream_disconnect(i)

\* the document, message and credential rows of session_id are as before
OwnedUnchanged(session_id) ==
    /\ Owned(documents', session_id) = Owned(documents, session_id)
    /\ Owned(chat_messages', session_id) = Owned(chat_messages, session_id)
    /\ Owned(api_keys', session_id) = Owned(api_keys, session_id)

\* C18: a step of an upload, a set-credential, a query or its stream for
\* session A leaves the document, message and credential rows owned by any
\* other session B as they were, whatever ran before (stated by
\* contraposition: a step that changes rows of B is a step of no other
\* session).
C18_SessionsIndependent ==
    [][ \A b \in Sessions :
            ~OwnedUnchanged(b) => \A a \in Sessions \ {b} : ~StepOf(a) ]_vars

C18_Witness ==
    \E a \in Sessions, b \in Sessions :
        /\ a # b
        /\ Owned(documents, b) # <<>>
        /\ Owned(api_keys, a) # <<>>
        /\ Owned(chat_messages, a) # <<>>
        /\ last.session_id = a

\* C19 (as claimed): the summary a successful upload for session S returns
\* has session_id S.
C19_SummaryOfOwnSession ==
    (last.op \in UploadOps /\ last.status = 200) =>
        /\ last.id \in DOMAIN documents
        /\ documents[last.id].session_id = last.session_id

\* C20 (as claimed): after a successful upload for session S the listing of
\* S is non-empty, contains the document the upload returned, holds only
\* documents of S and is ordered most recent upload first.
C20_ListingAfterUpload ==
    (last.op \in UploadOps /\ last.status = 200) =>
        LET listing == get_documents(last.session_id)
        IN  /\ listing # <<>>
            /\ \E k \in DOMAIN listing : listing[k].id = last.id
            /\ \A k \in DOMAIN listing : listing[k].session_id = last.session_id
            /\ \A k \in DOMAIN listing : \A l \in DOMAIN listing :
                   k < l => listing[k].upload_timestamp >= listing[l].upload_timestamp

\* C21: a sweep with threshold max_age removes exactly the sessions whose
\* time since last activity exceeds max_age, returns how many it removed and
\* leaves the record of every other session as it was; get_session on a
\* removed id then returns None.
C21_SweepRemovesExpired ==
    [][ \A a \in 0..MaxAge :
            cleanup_old_sessions(a) =>
                LET removed == DOMAIN sessions \ DOMAIN sessions'
                IN  /\ DOMAIN sessions' \subseteq DOMAIN sessions
                    /\ \A sid \in DOMAIN sessions :
                           sid \in removed <=> now - sessions[sid].last_activity > a
                    /\ returned'.result = Cardinality(removed)
                    /\ \A sid \in DOMAIN sessions' : sessions'[sid] = sessions[sid]
                    /\ \A sid \in removed : get_session(sid)' = None ]_vars

C21_Witness ==
    /\ returned.op = "cleanup_old_sessions"
    /\ returned.result = 1
    /\ \E sid \in Sessions : get_session(sid) = None
    /\ \E sid \in DOMAIN sessions :
           /\ now - sessions[sid].last_activity = returned.arg
           /\ returned.arg > 0
           /\ sessions[sid].last_activity > sessions[sid].created_at

Min(a, b) == IF a <= b THEN a ELSE b

\* C22: for a session with n stored messages and a limit L the history read
\* returns Min(L, n) messages, all of that session, in ascending timestamp
\* order, and every message of the session it leaves out is older than each
\* one it returns; for a session without messages it returns the empty list.
C22_HistoryRead ==
    \A sid \in Sessions, L \in (0..MaxLimit) \cup {DefaultLimit} :
        LET h == get_chat_history(sid, L)
            own == {m \in Range(chat_messages) : m.session_id = sid}
        IN  /\ Len(h) = Min(L, Cardinality(own))
            /\ \A k \in DOMAIN h : h[k] \in own
            /\ \A k \in DOMAIN h : \A l \in DOMAIN h :
                   k < l => h[k].timestamp < h[l].timestamp
            /\ \A m \in own \ Range(h) : \A k \in DOMAIN h :
                   m.timestamp < h[k].timestamp
            /\ own = {} => h = <<>>

C22_Witness ==
    /\ last.op = "get_chat_history"
    /\ last.status = 200
    /\ last.id >= 2
    /\ Cardinality({m \in Range(chat_messages) :
                        m.session_id = last.session_id}) > last.id
    /\ \E m \in Range(chat_messages) :
           /\ m.session_id # last.session_id
           /\ m.id = Len(chat_messages)

\* the streams of the queries of a session
StreamsOf(session_id) ==
    {i \in DOMAIN streams : streams[i].session_id = session_id}

\* every query of the session that was started has finished with [DONE], and
\* the history holds one user and one assistant message per query, each
\* query's user message before its assistant message
AllFinishedInOrder(session_id) ==
    LET rows == SessionMessages(session_id)
        count(type) == Cardinality({k \in DOMAIN rows : rows[k].message_type = type})
    IN  /\ count("user") = Cardinality(StreamsOf(session_id))
        /\ count("assistant") = Cardinality(StreamsOf(session_id))
        /\ \A i \in StreamsOf(session_id) :
               /\ streams[i].events[Len(streams[i].events)] = "data: [DONE]"
               /\ \E k \in DOMAIN rows : \E l \in DOMAIN rows :
                      /\ k < l
                      /\ rows[k].id = streams[i].user_message
                      /\ rows[k].message_type = "user"
                      /\ rows[l].id = streams[i].assistant_message
                      /\ rows[l].message_type = "assistant"

CommitErrorEvents == {"data: ERROR: " \o o : o \in CommitErrors}

\* the stream has sent [DONE]
HasDone(s) == \E k \in DOMAIN s.events : s.events[k] = "data: [DONE]"

\* C26: whenever [DONE] is among the events of a stream, the assistant
\* message of its query is a row of the session's history; a stream whose
\* assistant message could not be committed after all fragments were
\* forwarded ends with an ERROR event, has no [DONE] and no assistant
\* message, and sends nothing afterwards.
C26_DoneAfterCommit ==
    /\ [](\A i \in DOMAIN streams :
            LET s == streams[i]
            IN  /\ HasDone(s) =>
                       \E m \in Range(get_chat_history(s.session_id, DefaultLimit)) :
                           /\ m.id = s.assistant_message
                           /\ m.message_type = "assistant"
                /\ (\E k \in DOMAIN s.events : s.events[k] \in CommitErrorEvents) =>
                       /\ ~HasDone(s)
                       /\ s.events[Len(s.events)] \in CommitErrorEvents
                       /\ Len(s.events) = Len(s.produced) + 1
                       /\ s.assistant_message = 0
                       /\ AssistantRowsAreOfDoneStreams)
    /\ [][\A i \in DOMAIN streams :
            (\E k \in DOMAIN streams[i].events :
                 streams[i].events[k] \in CommitErrorEvents)
                => streams'[i] = streams[i]]_vars

C26_Witness ==
    \E i \in DOMAIN streams :
        /\ Len(streams[i].produced) >= 2
        /\ streams[i].events[Len(streams[i].events)] \in CommitErrorEvents
        /\ \E j \in DOMAIN streams : HasDone(streams[j])

\* chat_messages was extended, or left alone: no row changed or removed
Grows(table) ==
    /\ Len(table') >= Len(table)
    /\ \A k \in DOMAIN table : table'[k] = table[k]

\* C27: the conversation log only grows, no step modifies or deletes a
\* message, and every session has at most as many assistant messages as
\* user messages, whatever queries, upstream failures and disconnects ran.
C27_LogGrowsUserFirst ==
    /\ [](\A sid \in Sessions :
            Cardinality({m \in Range(chat_messages) :
                             m.session_id = sid /\ m.message_type = "assistant"})
                <= Cardinality({m \in Range(chat_messages) :
                                    m.session_id = sid /\ m.message_type = "user"}))
    /\ [][Grows(chat_messages)]_vars

C27_Witness ==
    /\ \E i \in DOMAIN streams : streams[i].pc = "done"
    /\ \E i \in DOMAIN streams : streams[i].pc \in {"failed", "closed"}
    /\ Len(chat_messages) >= 3

C28_ValidJsonUploadNo5xx ==
    [][ \A sid \in Sessions, f \in JsonNames, c \in Payloads :
            (upload_document(sid, f, c) /\ c.utf8 /\ c.bytes <= max_document_size)
                => last'.status < 500 ]_vars

\* the messages of a session that were stored before the user message of
\* stream i, oldest first
StoredBefore(i) ==
    SelectSeq2(chat_messages,
               {m \in Range(chat_messages) :
                    /\ m.session_id = streams[i].session_id
                    /\ m.id < streams[i].user_message})

\* C24: the prompt sent for a query is, in order, the fixed system block;
\* then, only for a non-empty document, one system block with the first 8000
\* characters of the document; then the at most 10 most recent messages of
\* the session stored before the query's user message, oldest first, each
\* with role user or assistant after its type; then the query as the last,
\* user turn, which is not among the history turns.
C24_PromptAssembly ==
    \A i \in DOMAIN streams :
        LET s == streams[i]
            p == messages(s.document_content, s.query, s.chat_history)
            prior == StoredBefore(i)
            t == Min(10, Len(prior))
            d == IF s.document_content.chars > 0 THEN 1 ELSE 0
        IN  (~simulate /\ s.attempts >= 1) =>
                /\ Len(p) = 1 + d + t + 1
                /\ p[1] = [role |-> "system", content |-> system_prompt]
                /\ d = 1 =>
                       /\ p[2].role = "system"
                       /\ p[2].content =
                              "Document content: "
                                  \o (IF s.document_content.chars <= 8000
                                      THEN s.document_content.text
                                      ELSE Take(s.document_content, 8000))
                       /\ s.document_content.chars > 8000 =>
                              p[2].content # "Document content: "
                                                 \o s.document_content.text
                /\ \A k \in 1..t :
                       LET m == prior[Len(prior) - t + k]
                       IN  /\ p[1 + d + k].content = m.content
                           /\ p[1 + d + k].role =
                                  (IF m.message_type = "user" THEN "user"
                                   ELSE "assistant")
                           /\ m.id # s.user_message
                /\ p[Len(p)] = [role |-> "user", content |-> s.query]

C24_Witness ==
    \E i \in DOMAIN streams :
        /\ ~simulate
        /\ streams[i].attempts >= 1
        /\ streams[i].document_content.chars > 8000
        /\ Len(StoredBefore(i)) > HistoryLimit

\* the operations of the HTTP handlers other than session creation
StoreOperations ==
    {"upload_document", "upload_file_document", "set_openai_key",
     "process_query", "get_chat_history", "get_documents"}

\* C29: a step of an upload, set-credential, query, history read or document
\* read leaves the session registry as it was, present ids with their
\* last-activity included, and is answered for ids that are not in the
\* registry as well; of the HTTP operations only session creation changes
\* the registry, by adding one entry; a sweep leaves the document, message
\* and credential records as they were.
C29_RegistryFrame ==
    [][ /\ (nreq' # nreq /\ last'.op \in StoreOperations) => sessions' = sessions
        /\ (nreq' # nreq /\ sessions' # sessions) =>
               /\ last'.op = "create_session"
               /\ DOMAIN sessions' = DOMAIN sessions \cup {last'.session_id}
               /\ \A sid \in DOMAIN sessions : sessions'[sid] = sessions[sid]
        /\ (\E a \in 0..MaxAge : cleanup_old_sessions(a)) =>
               /\ documents' = documents
               /\ chat_messages' = chat_messages
               /\ api_keys' = api_keys ]_vars

\* a query is accepted for a session that a sweep has removed from the
\* registry, with the credential of that session still stored
C29_Witness ==
    /\ returned.op = "cleanup_old_sessions"
    /\ returned.result = 1
    /\ last.op = "process_query"
    /\ last.status = 200
    /\ last.session_id \notin DOMAIN sessions
    /\ \E k \in DOMAIN api_keys : api_keys[k].session_id = last.session_id
    /\ now > 0

\* the first 100 characters of the document of stream i
Excerpt(s) ==
    IF s.document_content.chars <= 100 THEN s.document_content.text
    ELSE Take(s.document_content, 100)

\* the fragments of a simulated stream are the words of the canned response
\* for its document content and its query, cut into consecutive pieces of 3
\* words, (w + 2) \div 3 pieces for w words, and equal for equal content
\* and query
CannedInPieces(i) ==
    LET s == streams[i]
        words == SimulatedWords(s.document_content, s.query)
        w == Len(words)
        fragments == s.produced \o s.upstream
    IN  /\ Len(fragments) = (w + 2) \div 3
        /\ \A k \in DOMAIN fragments :
               fragments[k] = JoinWords(SubSeq(words, 3 * k - 2, Min(3 * k, w)))
        /\ \A j \in DOMAIN streams :
               (/\ streams[j].produced # <<>>
                /\ streams[j].document_content = s.document_content
                /\ streams[j].query = s.query)
                   => streams[j].produced \o streams[j].upstream = fragments

\* C30 (as claimed): in simulation mode the fragments are determined by the
\* document content and the query alone, they are the canned response in
\* consecutive pieces of at most 3 words, (w + 2) \div 3 pieces for w words,
\* and for a non-empty document the text sent contains the first 100
\* characters of the document as they are.
C30_IncludesFirstCharacters ==
    \A i \in DOMAIN streams :
        LET s == streams[i]
            words == SimulatedWords(s.document_content, s.query)
        IN  (simulate /\ s.produced # <<>>) =>
                /\ CannedInPieces(i)
                /\ s.document_content.chars > 0 =>
                       \E a \in DOMAIN words : \E b \in DOMAIN words :
                           JoinWords(SubSeq(words, a, b)) = Excerpt(s) \o "... "

\* C30 (amended): as claimed, except that for a non-empty document the
\* response contains the whitespace-separated words of the first 100
\* characters of the document followed by "...", in order and next to each
\* other, joined by single spaces whatever whitespace separated them.
C30_SimulationDeterministic ==
    \A i \in DOMAIN streams :
        LET s == streams[i]
            words == SimulatedWords(s.document_content, s.query)
            excerpt == Words(Excerpt(s) \o "...")
        IN  (simulate /\ s.produced # <<>>) =>
                /\ CannedInPieces(i)
                /\ s.document_content.chars > 0 =>
                       \E a \in DOMAIN words :
                           /\ a + Len(excerpt) - 1 <= Len(words)
                           /\ SubSeq(words, a, a + Len(excerpt) - 1) = excerpt

C30_Witness ==
    \E i \in DOMAIN streams :
        /\ simulate
        /\ streams[i].pc = "done"
        /\ streams[i].document_content.text = "x  y"
        /\ streams[i].chat_history # <<>>
        /\ Len(streams[i].produced) = 4
        /\ Len(SimulatedWords(streams[i].document_content, streams[i].query)) % 3 # 0

====
